---- MODULE Spec2Model ----
(***************************************************************************)
(* CloudFormation custom-resource handlers of amazon-eks-irsa-cfn:         *)
(*   - the IAM role handler              (src/unnamed/part_001)            *)
(*   - the OIDC identity provider handler (src/unnamed/part_004)           *)
(* One Lambda process is modelled; it has loaded one of the two packages   *)
(* (ctl).  An invocation of its handler advances                           *)
(* from one awaited remote call to the next; the remote services (STS,     *)
(* EKS, IAM, the pre-signed callback URL) answer each call with success or *)
(* with an error.  History variables record the calls that were issued.    *)
(*                                                                         *)
(* JavaScript values: strings are TLA+ strings, objects are functions      *)
(* whose domain is the set of properties that are present, arrays are      *)
(* sequences.  A property that is absent reads as Undefined.               *)
(***************************************************************************)
EXTENDS Integers, Sequences, FiniteSets, TLC

----------------------------------------------------------------------------
(* Bounds of the model *)

MaxInvocations == 2      \* handler invocations per behaviour
MaxSeed == 0             \* random streams 0..MaxSeed feed Math.random
MaxLogicalIdLen == 66    \* longest logical resource id given to the generator

----------------------------------------------------------------------------
(* Program constants *)

maxRoleNameLen == 63
randomSuffixLen == 12
\* variant of maxTruncatedRoleNameLen: no room left for the hyphen
maxTruncatedRoleNameLen_NoHyphen == maxRoleNameLen - randomSuffixLen
maxTruncatedRoleNameLen == maxRoleNameLen - randomSuffixLen - 1
suffixChars == "ABCDEFGHIJKLMNOPQRSTUVWXYZ0123456789"
eksOIDCCAThumbprint == "9e99a48a9960b14926bb7f3b02e22da2b0ab7280"

----------------------------------------------------------------------------
(* JavaScript value helpers *)

Undefined == "<undefined>"
EmptyObject == <<>>
JsNull == [null |-> TRUE]

\* o[k] of JavaScript: Undefined when the property is absent
Get(o, k) == IF k \in DOMAIN o THEN o[k] ELSE Undefined

\* a property of an object literal, dropped by JSON.stringify when undefined
Opt(k, v) == IF v = Undefined THEN EmptyObject ELSE k :> v

\* `${v}` of a template literal
ToStr(v) == IF v = Undefined THEN "undefined" ELSE v

\* !v for a string or undefined
Falsy(v) == v = Undefined \/ v = ""

\* a || b for strings
Or(a, b) == IF Falsy(a) THEN b ELSE a

Min(a, b) == IF a < b THEN a ELSE b

\* s.substr(0, n)
Substr0(s, n) == SubSeq(s, 1, Min(n, Len(s)))

StartsWith(s, p) == Len(s) >= Len(p) /\ SubSeq(s, 1, Len(p)) = p

\* the error objects of the model: name and message
Error(n, m) == [name |-> n, message |-> m]

----------------------------------------------------------------------------
(* Pure functions of the role handler *)

\* variant of StripScheme: the pattern '^https://'
StripScheme_HttpsOnly(url) ==
  IF StartsWith(url, "https://") THEN SubSeq(url, 9, Len(url)) ELSE url

\* cluster.identity.oidc.issuer.replace(new RegExp('^https?://'), '')
StripScheme(url) ==
  IF StartsWith(url, "https://") THEN SubSeq(url, 9, Len(url))
  ELSE IF StartsWith(url, "http://") THEN SubSeq(url, 8, Len(url))
  ELSE url

\* the object that getAssumeRolePolicy hands to JSON.stringify
getAssumeRolePolicy(accountId, issuer, namespace, serviceAccount) ==
  [Version |-> "2012-10-17",
   Statement |-> <<
     [Effect |-> "Allow",
      Principal |-> [Federated |-> "arn:aws:iam::" \o ToStr(accountId)
                                    \o ":oidc-provider/" \o ToStr(issuer)],
      Action |-> "sts:AssumeRoleWithWebIdentity",
      Condition |-> [StringEquals |->
         ((ToStr(issuer) \o ":sub") :>
             ("system:serviceaccount:" \o ToStr(namespace) \o ":" \o ToStr(serviceAccount)))
         @@ ((ToStr(issuer) \o ":aud") :> "sts.amazonaws.com")]] >>]

\* Math.floor(Math.random() * suffixChars.length) for a draw r of Math.random,
\* given as the numerator of r = n / RandomDenominator in [0, 1)
RandomDenominator == 72
RandomIndex(n) == (n * Len(suffixChars)) \div RandomDenominator

\* suffixChars[k], a zero-based index
CharAt(s, k) == SubSeq(s, k + 1, k + 1)

\* the loop of generateRoleName: appends one character per draw
RECURSIVE AppendSuffix(_, _, _)
AppendSuffix(roleName, draws, i) ==
  IF i < randomSuffixLen
  THEN AppendSuffix(roleName \o CharAt(suffixChars, RandomIndex(draws[i + 1])), draws, i + 1)
  ELSE roleName

generateRoleName(logicalResourceId, draws) ==
  AppendSuffix(Substr0(logicalResourceId, maxTruncatedRoleNameLen) \o "-", draws, 0)

\* the values Math.random returns during one call of generateRoleName
RandomDraws ==
  { [i \in 1..randomSuffixLen |->
        (((i - 1) * (RandomDenominator - 1)) \div (randomSuffixLen - 1) + seed * 17 * i)
           % RandomDenominator]
      : seed \in 0..MaxSeed }

----------------------------------------------------------------------------
(* The remote services and the inputs of the model *)

\* the account of the caller, answered by sts.getCallerIdentity
Account == "123456789012"

\* eks.describeCluster: the OIDC issuer of each cluster that exists
eksClusters ==
  ("testCluster" :> "https://oidc.eks.us-east-1.amazonaws.com/id/EBAABEEF")
  @@ ("test2" :> "https://oidc.eks.us-east-1.amazonaws.com/id/ABCDEF")
  @@ ("test3" :> "https://oidc.eks.us-east-1.amazonaws.com/id/EBAABEEF")
  @@ ("plainHttp" :> "http://oidc.example.com/id/1")
  @@ ("noScheme" :> "oidc.example.com/id/2")
  @@ ("upperCase" :> "HTTPS://oidc.example.com/id/3")
  @@ ("inner" :> "oidc.example.com/https://id/4")
  @@ ("bare" :> "https://")

\* errors a remote call can answer with
RemoteErrors ==
  { Error("ResourceNotFoundException", "The resource was not found"),
    Error("NoSuchEntity", "The entity cannot be found"),
    Error("AccessDenied", "User is not authorized to perform this action") }

\* the ARN IAM gives a role and an OIDC provider
RoleArn(path, name) == "arn:aws:iam::" \o Account \o ":role" \o Or(path, "/") \o name
ProviderArn(url) == "arn:aws:iam::" \o Account \o ":oidc-provider/" \o StripScheme(url)

\* answers of the callback endpoint: an HTTP status code, or 0 for a transport error
TransportError == 0
CallbackAnswers == {200, 301, 400, TransportError}

\* the Lambda context
context == [logStreamName |-> "2019/11/01/[$LATEST]abcdef"]

testPolicy == [PolicyName |-> "Test Policy", PolicyDocument |-> "{Allow * on *}"]
testPolicy2 == [PolicyName |-> "Test Policy 2", PolicyDocument |-> "{Allow * on *}"]
testManagedPolicyArn == "arn:aws:iam::aws:policy/AdministratorAccess"
testManagedPolicyArn2 == "arn:aws:iam::aws:policy/AmazonS3FullAccess"
ResponseURL == "https://iam-response-mock.example.com/"
longLogicalResourceId == "MyVeryLongLogicalResourceIdentifierThatExceedsFiftyCharacters"

\* the correlation fields CloudFormation puts into every event
Correlation ==
  { [RequestId |-> "req-1", StackId |-> "arn:aws:cloudformation:stack/s1",
     LogicalResourceId |-> "TestRoleResource", ResponseURL |-> ResponseURL],
    [RequestId |-> "req-2", StackId |-> "arn:aws:cloudformation:stack/s2",
     LogicalResourceId |-> longLogicalResourceId, ResponseURL |-> ResponseURL] }

RoleProperties ==
  { [ClusterName |-> "testCluster", Namespace |-> "testNamespace",
     ServiceAccount |-> "testServiceAccount", Description |-> "This is my role",
     MaxSessionDuration |-> 3600, Path |-> "/"] @@ n @@ p @@ m
    : n \in {EmptyObject, "RoleName" :> "testRole"},
      p \in {EmptyObject} \cup {"Policies" :> l : l \in {<<testPolicy>>, <<testPolicy, testPolicy2>>}},
      m \in {EmptyObject} \cup {"ManagedPolicyArns" :> l :
               l \in {<<testManagedPolicyArn>>, <<testManagedPolicyArn, testManagedPolicyArn2>>}} }

RoleNames == {"testRole"} \cup
  { generateRoleName(c.LogicalResourceId, d) : c \in Correlation, d \in RandomDraws }

ProviderProperties == { [ClusterName |-> c] : c \in {"testCluster", "test2", "test3"} }

ProviderArns == { ProviderArn(eksClusters[p.ClusterName]) : p \in ProviderProperties }

\* the events the role handler is invoked with
RoleEvents ==
  { c @@ [RequestType |-> "Create", ResourceProperties |-> p]
      : c \in Correlation, p \in RoleProperties }
  \cup
  { c @@ [RequestType |-> "Delete", PhysicalResourceId |-> "testRole", ResourceProperties |-> p]
      : c \in Correlation,
        p \in {q \in RoleProperties : "RoleName" \in DOMAIN q /\ "Policies" \notin DOMAIN q} }
  \cup
  { c @@ [RequestType |-> "Update", PhysicalResourceId |-> "testRole",
          ResourceProperties |-> p, OldResourceProperties |-> o]
      : c \in Correlation,
        p \in {q \in RoleProperties :
                 /\ "RoleName" \in DOMAIN q
                 /\ ("Policies" \in DOMAIN q) = ("ManagedPolicyArns" \in DOMAIN q)
                 /\ "Policies" \in DOMAIN q => Len(q.Policies) = 1},
        o \in {q \in RoleProperties :
                 /\ "RoleName" \in DOMAIN q
                 /\ ("Policies" \in DOMAIN q) = ("ManagedPolicyArns" \in DOMAIN q)
                 /\ "Policies" \in DOMAIN q => Len(q.Policies) = 2} }
  \cup { c @@ [RequestType |-> "bogus"] : c \in Correlation }
  \cup { EmptyObject }

\* the events the identity provider handler is invoked with
ProviderEvents ==
  { c @@ [RequestType |-> "Create", ResourceProperties |-> p]
      : c \in Correlation, p \in ProviderProperties }
  \cup
  { c @@ [RequestType |-> t, PhysicalResourceId |-> a, ResourceProperties |-> p]
      : c \in Correlation, t \in {"Update", "Delete"}, a \in ProviderArns,
        p \in ProviderProperties }
  \cup { c @@ [RequestType |-> "bogus"] : c \in Correlation }
  \cup { EmptyObject }

----------------------------------------------------------------------------
(* State *)

VARIABLES
  defaultResponseURL,  \* module variable of the handler package (set by tests only)
  waiter,              \* module variable of the role handler (set by tests only)
  iam,                 \* remote IAM: the names of the roles and the ARNs of the providers
  ctl,                 \* the package this process has loaded: "role" or "provider"
  event,               \* the event of the running invocation
  pc,                  \* position of the running invocation
  physicalResourceId,  \* local of handler
  responseData,        \* local of handler
  role,                \* local of handler (role): the Role that createRole returned
  err,                 \* the error that the catch clause caught
  accountId,           \* result of getAccountId
  issuer,              \* result of getIssuer / getIssuerUrl
  idx,                 \* position in the loop over Policies / ManagedPolicyArns
  calls,               \* history: remote API calls issued by this invocation
  reports,             \* history: calls of report by this invocation
  puts,                \* history: HTTPS PUT requests sent by this invocation
  generated,           \* history: results of generateRoleName in this invocation
  invocations,         \* number of invocations started
  construct            \* the Role construct under declaration (lib), its scope included

vars == << defaultResponseURL, waiter, iam, ctl, event, pc, physicalResourceId,
           responseData, role, err, accountId, issuer, idx, calls, reports, puts,
           generated, invocations, construct >>

moduleVars == << defaultResponseURL, waiter >>
localVars == << physicalResourceId, responseData, role, err, accountId, issuer, idx >>

\* no Role construct is being declared
NoConstruct ==
  [pc |-> "none", props |-> EmptyObject, locals |-> EmptyObject, fn |-> FALSE,
   declared |-> <<>>, error |-> Error(Undefined, Undefined)]

NoRole == [RoleName |-> Undefined, Arn |-> Undefined, RoleId |-> Undefined]
NoError == Error(Undefined, Undefined)

Init ==
  /\ defaultResponseURL = Undefined
  /\ waiter = Undefined
  /\ iam = [roles |-> {}, providers |-> {}]
  /\ ctl \in {"role", "provider"}
  /\ event = EmptyObject
  /\ pc = "idle"
  /\ physicalResourceId = Undefined
  /\ responseData = EmptyObject
  /\ role = NoRole
  /\ err = NoError
  /\ accountId = Undefined
  /\ issuer = Undefined
  /\ idx = 1
  /\ calls = <<>>
  /\ reports = <<>>
  /\ puts = <<>>
  /\ generated = <<>>
  /\ invocations = 0
  /\ construct = NoConstruct

----------------------------------------------------------------------------
(* Helpers of the actions *)

\* the answer of a remote call that succeeded
Ok == Error("ok", "")
Answers == {Ok} \cup RemoteErrors

\* the properties of o among keys that are present (an object literal whose
\* undefined members the SDK drops)
Pick(o, keys) == [k \in (keys \cap DOMAIN o) |-> o[k]]

Call(op, params, answer) == [op |-> op, params |-> params, answer |-> answer]

props == event.ResourceProperties
PoliciesOf(p) == IF "Policies" \in DOMAIN p THEN p.Policies ELSE <<>>
ManagedPolicyArnsOf(p) == IF "ManagedPolicyArns" \in DOMAIN p THEN p.ManagedPolicyArns ELSE <<>>

\* variant of Throw: the error ends the invocation without a response
Throw_NoResponse(e) == err' = e /\ pc' = "done"

\* a throw inside the try block of handler: control moves to the catch clause
Throw(e) == err' = e /\ pc' = "reportFailed"

\* positions of createRole: after the loop over Policies, after the existence
\* check, and after iam.createRole
AfterPolicies(p) ==
  IF Len(ManagedPolicyArnsOf(p)) >= 1 THEN "attachRolePolicy" ELSE "createRoleReturn"
AfterWaitFor(p) ==
  IF Len(PoliciesOf(p)) >= 1 THEN "putRolePolicy" ELSE AfterPolicies(p)
\* variant of AfterCreateRole: the existence check is skipped
AfterCreateRole_SkipWait(p) == AfterWaitFor(p)
AfterCreateRole(p) == "waitFor"

\* variant of LoopContinues: the loop stops one element early
LoopContinues_StopsEarly(i, list) == i + 1 < Len(list)

\* for (const x of list): TRUE when an element follows the i-th
LoopContinues(i, list) == i < Len(list)

----------------------------------------------------------------------------
(* Test hooks: module variables *)

withDefaultResponseURL(url) ==
  /\ pc = "idle"
  /\ defaultResponseURL # url
  /\ defaultResponseURL' = url
  /\ UNCHANGED << waiter, iam, ctl, construct, event, pc, localVars, calls, reports, puts,
                  generated, invocations >>

withWaiter(w) ==
  /\ pc = "idle" /\ ctl = "role"
  /\ waiter # w
  /\ waiter' = w
  /\ UNCHANGED << defaultResponseURL, iam, ctl, construct, event, pc, localVars, calls, reports,
                  puts, generated, invocations >>

resetWaiter ==
  /\ pc \in {"done", "rejected"}
  /\ waiter # Undefined
  /\ waiter' = Undefined
  /\ UNCHANGED << defaultResponseURL, iam, ctl, construct, event, pc, localVars, calls, reports,
                  puts, generated, invocations >>

----------------------------------------------------------------------------
(* Lambda invokes exports.handler of one of the two packages *)

\* variant of Invoke: the handler clears the module state on entry
Invoke_ResetsModule(e) ==
  /\ pc \in {"idle", "done", "rejected"}
  /\ invocations < MaxInvocations
  /\ invocations' = invocations + 1
  /\ event' = e
  /\ physicalResourceId' = Undefined
  /\ responseData' = EmptyObject
  /\ role' = NoRole
  /\ err' = NoError
  /\ accountId' = Undefined
  /\ issuer' = Undefined
  /\ idx' = 1
  /\ calls' = <<>>
  /\ reports' = <<>>
  /\ puts' = <<>>
  /\ generated' = <<>>
  /\ pc' = "switch"
  /\ defaultResponseURL' = Undefined /\ waiter' = Undefined
  /\ UNCHANGED << iam, ctl, construct >>

Invoke(e) ==
  /\ pc \in {"idle", "done", "rejected"}
  /\ invocations < MaxInvocations
  /\ invocations' = invocations + 1
  /\ event' = e
  /\ physicalResourceId' = Undefined
  /\ responseData' = EmptyObject
  /\ role' = NoRole
  /\ err' = NoError
  /\ accountId' = Undefined
  /\ issuer' = Undefined
  /\ idx' = 1
  /\ calls' = <<>>
  /\ reports' = <<>>
  /\ puts' = <<>>
  /\ generated' = <<>>
  /\ pc' = "switch"
  /\ UNCHANGED << moduleVars, iam, ctl, construct >>

----------------------------------------------------------------------------
(* Role handler *)

\* variant of RoleSwitchCreate: a name is generated whether or not the event has one
RoleSwitchCreate_AlwaysGenerates ==
  /\ pc = "switch" /\ ctl = "role"
  /\ Get(event, "RequestType") = "Create"
  /\ \E d \in RandomDraws :
       LET n == generateRoleName(event.LogicalResourceId, d) IN
         /\ event' = [event EXCEPT !.ResourceProperties = ("RoleName" :> n) @@ @]
         /\ generated' = Append(generated, n)
  /\ pc' = "getAccountId"
  /\ UNCHANGED << moduleVars, iam, ctl, construct, localVars, calls, reports, puts, invocations >>

\* case 'Create': up to the first awaited call of createRole
RoleSwitchCreate ==
  /\ pc = "switch" /\ ctl = "role"
  /\ Get(event, "RequestType") = "Create"
  /\ IF Falsy(Get(props, "RoleName"))
     THEN \E d \in RandomDraws :
            LET n == generateRoleName(event.LogicalResourceId, d) IN
              /\ event' = [event EXCEPT !.ResourceProperties = ("RoleName" :> n) @@ @]
              /\ generated' = Append(generated, n)
     ELSE UNCHANGED << event, generated >>
  /\ pc' = "getAccountId"
  /\ UNCHANGED << moduleVars, iam, ctl, construct, localVars, calls, reports, puts, invocations >>

\* variant of RoleSwitchDelete: physicalResourceId is not taken from the event
RoleSwitchDelete_NoPhysicalId ==
  /\ pc = "switch" /\ ctl = "role"
  /\ Get(event, "RequestType") = "Delete"
  /\ physicalResourceId' = Undefined
  /\ pc' = "deleteRole"
  /\ UNCHANGED << moduleVars, iam, ctl, construct, event, responseData, role, err, accountId,
                  issuer, idx, calls, reports, puts, generated, invocations >>

\* case 'Delete'
RoleSwitchDelete ==
  /\ pc = "switch" /\ ctl = "role"
  /\ Get(event, "RequestType") = "Delete"
  /\ physicalResourceId' = Get(event, "PhysicalResourceId")
  /\ pc' = "deleteRole"
  /\ UNCHANGED << moduleVars, iam, ctl, construct, event, responseData, role, err, accountId,
                  issuer, idx, calls, reports, puts, generated, invocations >>

\* variant of RoleSwitchDefault: the message leaves out the request type
RoleSwitchDefault_NoValue ==
  /\ pc = "switch" /\ ctl = "role"
  /\ Get(event, "RequestType") \notin {"Create", "Delete"}
  /\ Throw(Error("Error", "Unsupported request type"))
  /\ UNCHANGED << moduleVars, iam, ctl, construct, event, physicalResourceId, responseData, role,
                  accountId, issuer, idx, calls, reports, puts, generated, invocations >>

\* default: every other request type, 'Update' included
RoleSwitchDefault ==
  /\ pc = "switch" /\ ctl = "role"
  /\ Get(event, "RequestType") \notin {"Create", "Delete"}
  /\ Throw(Error("Error", "Unsupported request type " \o ToStr(Get(event, "RequestType"))))
  /\ UNCHANGED << moduleVars, iam, ctl, construct, event, physicalResourceId, responseData, role,
                  accountId, issuer, idx, calls, reports, puts, generated, invocations >>

getAccountId ==
  /\ pc = "getAccountId"
  /\ \E a \in Answers :
       /\ calls' = Append(calls, Call("sts.getCallerIdentity", EmptyObject, a))
       /\ IF a = Ok
          THEN accountId' = Account /\ pc' = "getIssuer" /\ UNCHANGED err
          ELSE Throw(a) /\ UNCHANGED accountId
  /\ UNCHANGED << moduleVars, iam, ctl, construct, event, physicalResourceId, responseData, role,
                  issuer, idx, reports, puts, generated, invocations >>

getIssuer ==
  /\ pc = "getIssuer"
  /\ LET name == Get(props, "ClusterName") IN
     \E a \in (IF name \in DOMAIN eksClusters THEN Answers ELSE RemoteErrors) :
       /\ calls' = Append(calls, Call("eks.describeCluster", [name |-> name], a))
       /\ IF a = Ok
          THEN issuer' = StripScheme(eksClusters[name]) /\ pc' = "createRole" /\ UNCHANGED err
          ELSE Throw(a) /\ UNCHANGED issuer
  /\ UNCHANGED << moduleVars, iam, ctl, construct, event, physicalResourceId, responseData, role,
                  accountId, idx, reports, puts, generated, invocations >>

\* variant of createRole: the physical id is assigned as soon as the role exists
createRole_AssignsPhysicalId ==
  /\ pc = "createRole"
  /\ LET params ==
           [AssumeRolePolicyDocument |->
              getAssumeRolePolicy(accountId, issuer, Get(props, "Namespace"),
                                  Get(props, "ServiceAccount"))]
           @@ Pick(props, {"RoleName", "Description", "MaxSessionDuration", "Path",
                           "PermissionsBoundary"})
         name == params.RoleName
     IN
     \E a \in (IF name \in iam.roles THEN RemoteErrors ELSE Answers) :
       /\ calls' = Append(calls, Call("iam.createRole", params, a))
       /\ IF a = Ok
          THEN /\ role' = [RoleName |-> name, Arn |-> RoleArn(Get(params, "Path"), name),
                           RoleId |-> "AROAEXAMPLEROLEID"]
               /\ iam' = [iam EXCEPT !.roles = @ \cup {name}]
               /\ physicalResourceId' = name
               /\ pc' = AfterCreateRole(props)
               /\ UNCHANGED err
          ELSE Throw(a) /\ UNCHANGED << role, iam, physicalResourceId >>
  /\ UNCHANGED << moduleVars, ctl, construct, event, responseData, accountId,
                  issuer, idx, reports, puts, generated, invocations >>

\* iam.createRole(...) of createRole
createRole ==
  /\ pc = "createRole"
  /\ LET params ==
           [AssumeRolePolicyDocument |->
              getAssumeRolePolicy(accountId, issuer, Get(props, "Namespace"),
                                  Get(props, "ServiceAccount"))]
           @@ Pick(props, {"RoleName", "Description", "MaxSessionDuration", "Path",
                           "PermissionsBoundary"})
         name == params.RoleName
     IN
     \E a \in (IF name \in iam.roles THEN RemoteErrors ELSE Answers) :
       /\ calls' = Append(calls, Call("iam.createRole", params, a))
       /\ IF a = Ok
          THEN /\ role' = [RoleName |-> name, Arn |-> RoleArn(Get(params, "Path"), name),
                           RoleId |-> "AROAEXAMPLEROLEID"]
               /\ iam' = [iam EXCEPT !.roles = @ \cup {name}]
               /\ pc' = AfterCreateRole(props)
               /\ UNCHANGED err
          ELSE Throw(a) /\ UNCHANGED << role, iam >>
  /\ UNCHANGED << moduleVars, ctl, construct, event, physicalResourceId, responseData, accountId,
                  issuer, idx, reports, puts, generated, invocations >>

\* variant of waitFor: a failed existence check is ignored
waitFor_IgnoreError ==
  /\ pc = "waitFor"
  /\ \E a \in Answers :
       calls' = Append(calls,
            Call("iam.waitFor",
                 [state |-> "roleExists", RoleName |-> role.RoleName,
                  mocked |-> (waiter # Undefined)], a))
  /\ pc' = AfterWaitFor(props)
  /\ UNCHANGED << moduleVars, iam, ctl, construct, event, physicalResourceId, responseData, role,
                  err, accountId, issuer, idx, reports, puts, generated, invocations >>

\* iam.waitFor('roleExists', ...) of createRole, the test waiter when one is set
waitFor ==
  /\ pc = "waitFor"
  /\ \E a \in Answers :
       /\ calls' = Append(calls,
            Call("iam.waitFor",
                 [state |-> "roleExists", RoleName |-> role.RoleName,
                  mocked |-> (waiter # Undefined)], a))
       /\ IF a = Ok
          THEN pc' = AfterWaitFor(props) /\ UNCHANGED err
          ELSE Throw(a)
  /\ UNCHANGED << moduleVars, iam, ctl, construct, event, physicalResourceId, responseData, role,
                  accountId, issuer, idx, reports, puts, generated, invocations >>

\* one iteration of: for (const policy of props.Policies || [])
putRolePolicy ==
  /\ pc = "putRolePolicy"
  /\ LET policy == PoliciesOf(props)[idx]
         params == [RoleName |-> role.RoleName, PolicyName |-> policy.PolicyName,
                    PolicyDocument |-> policy.PolicyDocument]
     IN
     \E a \in Answers :
       /\ calls' = Append(calls, Call("iam.putRolePolicy", params, a))
       /\ IF a = Ok
          THEN /\ IF LoopContinues(idx, PoliciesOf(props))
                  THEN idx' = idx + 1 /\ pc' = "putRolePolicy"
                  ELSE idx' = 1 /\ pc' = AfterPolicies(props)
               /\ UNCHANGED err
          ELSE Throw(a) /\ UNCHANGED idx
  /\ UNCHANGED << moduleVars, iam, ctl, construct, event, physicalResourceId, responseData, role,
                  accountId, issuer, reports, puts, generated, invocations >>

\* variant of attachRolePolicy: a failed attach deletes the role again
attachRolePolicy_RollsBack ==
  /\ pc = "attachRolePolicy"
  /\ LET params == [RoleName |-> role.RoleName, PolicyArn |-> ManagedPolicyArnsOf(props)[idx]]
     IN
     \E a \in Answers :
       /\ IF a = Ok
          THEN /\ calls' = Append(calls, Call("iam.attachRolePolicy", params, a))
               /\ IF LoopContinues(idx, ManagedPolicyArnsOf(props))
                  THEN idx' = idx + 1 /\ pc' = "attachRolePolicy"
                  ELSE idx' = 1 /\ pc' = "createRoleReturn"
               /\ UNCHANGED << err, iam >>
          ELSE /\ calls' = calls \o << Call("iam.attachRolePolicy", params, a),
                                      Call("iam.deleteRole", [RoleName |-> role.RoleName], Ok) >>
               /\ iam' = [iam EXCEPT !.roles = @ \ {role.RoleName}]
               /\ Throw(a) /\ UNCHANGED idx
  /\ UNCHANGED << moduleVars, ctl, construct, event, physicalResourceId, responseData, role,
                  accountId, issuer, reports, puts, generated, invocations >>

\* one iteration of: for (const arn of props.ManagedPolicyArns || [])
attachRolePolicy ==
  /\ pc = "attachRolePolicy"
  /\ LET params == [RoleName |-> role.RoleName, PolicyArn |-> ManagedPolicyArnsOf(props)[idx]]
     IN
     \E a \in Answers :
       /\ calls' = Append(calls, Call("iam.attachRolePolicy", params, a))
       /\ IF a = Ok
          THEN /\ IF LoopContinues(idx, ManagedPolicyArnsOf(props))
                  THEN idx' = idx + 1 /\ pc' = "attachRolePolicy"
                  ELSE idx' = 1 /\ pc' = "createRoleReturn"
               /\ UNCHANGED err
          ELSE Throw(a) /\ UNCHANGED idx
  /\ UNCHANGED << moduleVars, iam, ctl, construct, event, physicalResourceId, responseData, role,
                  accountId, issuer, reports, puts, generated, invocations >>

\* variant of RoleCreated: physicalResourceId is not assigned
RoleCreated_NoPhysicalId ==
  /\ pc = "createRoleReturn"
  /\ responseData' = [Arn |-> role.Arn, RoleId |-> role.RoleId]
  /\ pc' = "reportSuccess"
  /\ UNCHANGED << moduleVars, iam, ctl, construct, event, physicalResourceId, role, err, accountId,
                  issuer, idx, calls, reports, puts, generated, invocations >>

\* createRole returns Role; handler fills responseData and physicalResourceId
RoleCreated ==
  /\ pc = "createRoleReturn"
  /\ responseData' = [Arn |-> role.Arn, RoleId |-> role.RoleId]
  /\ physicalResourceId' = role.RoleName
  /\ pc' = "reportSuccess"
  /\ UNCHANGED << moduleVars, iam, ctl, construct, event, role, err, accountId, issuer, idx, calls,
                  reports, puts, generated, invocations >>

deleteRole ==
  /\ pc = "deleteRole"
  /\ LET roleName == physicalResourceId IN
     \E a \in (IF roleName \in iam.roles THEN Answers ELSE RemoteErrors) :
       /\ calls' = Append(calls, Call("iam.deleteRole", [RoleName |-> roleName], a))
       /\ IF a = Ok
          THEN /\ iam' = [iam EXCEPT !.roles = @ \ {roleName}]
               /\ pc' = "reportSuccess"
               /\ UNCHANGED err
          ELSE /\ IF a.name # "ResourceNotFoundException"
                  THEN Throw(a)
                  ELSE pc' = "reportSuccess" /\ UNCHANGED err
               /\ UNCHANGED iam
  /\ UNCHANGED << moduleVars, ctl, construct, event, physicalResourceId, responseData, role,
                  accountId, issuer, idx, reports, puts, generated, invocations >>

----------------------------------------------------------------------------
(* Identity provider handler *)

\* variant of ProviderSwitchUpdate: the old provider is not deleted first
ProviderSwitchUpdate_SkipsDelete ==
  /\ pc = "switch" /\ ctl = "provider"
  /\ Get(event, "RequestType") = "Update"
  /\ pc' = "getIssuerUrl"
  /\ UNCHANGED << moduleVars, iam, ctl, construct, event, localVars, calls, reports, puts,
                  generated, invocations >>

\* case 'Update': delete the old provider, then fall through to 'Create'
ProviderSwitchUpdate ==
  /\ pc = "switch" /\ ctl = "provider"
  /\ Get(event, "RequestType") = "Update"
  /\ pc' = "deleteProvider"
  /\ UNCHANGED << moduleVars, iam, ctl, construct, event, localVars, calls, reports, puts,
                  generated, invocations >>

\* case 'Create'
ProviderSwitchCreate ==
  /\ pc = "switch" /\ ctl = "provider"
  /\ Get(event, "RequestType") = "Create"
  /\ pc' = "getIssuerUrl"
  /\ UNCHANGED << moduleVars, iam, ctl, construct, event, localVars, calls, reports, puts,
                  generated, invocations >>

\* case 'Delete'
ProviderSwitchDelete ==
  /\ pc = "switch" /\ ctl = "provider"
  /\ Get(event, "RequestType") = "Delete"
  /\ physicalResourceId' = Get(event, "PhysicalResourceId")
  /\ pc' = "deleteProvider"
  /\ UNCHANGED << moduleVars, iam, ctl, construct, event, responseData, role, err, accountId,
                  issuer, idx, calls, reports, puts, generated, invocations >>

\* default
ProviderSwitchDefault ==
  /\ pc = "switch" /\ ctl = "provider"
  /\ Get(event, "RequestType") \notin {"Create", "Update", "Delete"}
  /\ Throw(Error("Error", "Unsupported request type " \o ToStr(Get(event, "RequestType"))))
  /\ UNCHANGED << moduleVars, iam, ctl, construct, event, physicalResourceId, responseData, role,
                  accountId, issuer, idx, calls, reports, puts, generated, invocations >>

\* variant of deleteProvider: the error of the call is not caught
deleteProvider_Throws ==
  /\ pc = "deleteProvider"
  /\ LET providerArn == Get(event, "PhysicalResourceId") IN
     \E a \in (IF providerArn \in iam.providers THEN Answers ELSE RemoteErrors) :
       /\ calls' = Append(calls, Call("iam.deleteOpenIDConnectProvider",
                                      [OpenIDConnectProviderArn |-> providerArn], a))
       /\ iam' = IF a = Ok THEN [iam EXCEPT !.providers = @ \ {providerArn}] ELSE iam
       /\ IF a # Ok
          THEN Throw(a)
          ELSE /\ pc' = IF event.RequestType = "Update" THEN "getIssuerUrl" ELSE "reportSuccess"
               /\ UNCHANGED err
  /\ UNCHANGED << moduleVars, ctl, construct, event, physicalResourceId, responseData, role,
                  accountId, issuer, idx, reports, puts, generated, invocations >>

\* variant of deleteProvider: only a not-found error is swallowed
deleteProvider_Rethrows ==
  /\ pc = "deleteProvider"
  /\ LET providerArn == Get(event, "PhysicalResourceId") IN
     \E a \in (IF providerArn \in iam.providers THEN Answers ELSE RemoteErrors) :
       /\ calls' = Append(calls, Call("iam.deleteOpenIDConnectProvider",
                                      [OpenIDConnectProviderArn |-> providerArn], a))
       /\ iam' = IF a = Ok THEN [iam EXCEPT !.providers = @ \ {providerArn}] ELSE iam
       /\ IF a # Ok /\ a.name # "ResourceNotFoundException"
          THEN Throw(a)
          ELSE /\ pc' = IF event.RequestType = "Update" THEN "getIssuerUrl" ELSE "reportSuccess"
               /\ UNCHANGED err
  /\ UNCHANGED << moduleVars, ctl, construct, event, physicalResourceId, responseData, role,
                  accountId, issuer, idx, reports, puts, generated, invocations >>

\* deleteProvider: every error of the call is logged and swallowed
deleteProvider ==
  /\ pc = "deleteProvider"
  /\ LET providerArn == Get(event, "PhysicalResourceId") IN
     \E a \in (IF providerArn \in iam.providers THEN Answers ELSE RemoteErrors) :
       /\ calls' = Append(calls, Call("iam.deleteOpenIDConnectProvider",
                                      [OpenIDConnectProviderArn |-> providerArn], a))
       /\ iam' = IF a = Ok THEN [iam EXCEPT !.providers = @ \ {providerArn}] ELSE iam
  /\ pc' = IF event.RequestType = "Update" THEN "getIssuerUrl" ELSE "reportSuccess"
  /\ UNCHANGED << moduleVars, ctl, construct, event, localVars, reports, puts, generated,
                  invocations >>

\* variant of getIssuerUrl: the scheme is stripped as the role handler does
getIssuerUrl_Stripped ==
  /\ pc = "getIssuerUrl"
  /\ LET name == Get(props, "ClusterName") IN
     \E a \in (IF name \in DOMAIN eksClusters THEN Answers ELSE RemoteErrors) :
       /\ calls' = Append(calls, Call("eks.describeCluster", [name |-> name], a))
       /\ IF a = Ok
          THEN /\ issuer' = StripScheme(eksClusters[name])
               /\ pc' = "createProvider" /\ UNCHANGED err
          ELSE Throw(a) /\ UNCHANGED issuer
  /\ UNCHANGED << moduleVars, iam, ctl, construct, event, physicalResourceId, responseData, role,
                  accountId, idx, reports, puts, generated, invocations >>

\* getIssuerUrl: the issuer of the cluster as eks.describeCluster returns it
getIssuerUrl ==
  /\ pc = "getIssuerUrl"
  /\ LET name == Get(props, "ClusterName") IN
     \E a \in (IF name \in DOMAIN eksClusters THEN Answers ELSE RemoteErrors) :
       /\ calls' = Append(calls, Call("eks.describeCluster", [name |-> name], a))
       /\ IF a = Ok
          THEN issuer' = eksClusters[name] /\ pc' = "createProvider" /\ UNCHANGED err
          ELSE Throw(a) /\ UNCHANGED issuer
  /\ UNCHANGED << moduleVars, iam, ctl, construct, event, physicalResourceId, responseData, role,
                  accountId, idx, reports, puts, generated, invocations >>

\* variant of createProvider: an event that has a physical id keeps it
createProvider_KeepsEventId ==
  /\ pc = "createProvider"
  /\ LET params == [Url |-> issuer, ThumbprintList |-> << eksOIDCCAThumbprint >>,
                    ClientIDList |-> << "sts.amazon.com" >>]
         arn == ProviderArn(issuer)
     IN
     \E a \in (IF arn \in iam.providers THEN RemoteErrors ELSE Answers) :
       /\ calls' = Append(calls, Call("iam.createOpenIDConnectProvider", params, a))
       /\ IF a = Ok
          THEN /\ iam' = [iam EXCEPT !.providers = @ \cup {arn}]
               /\ physicalResourceId' = IF "PhysicalResourceId" \in DOMAIN event
                                        THEN event.PhysicalResourceId ELSE arn
               /\ responseData' = [Arn |-> arn]
               /\ pc' = "reportSuccess"
               /\ UNCHANGED err
          ELSE Throw(a) /\ UNCHANGED << iam, physicalResourceId, responseData >>
  /\ UNCHANGED << moduleVars, ctl, construct, event, role, accountId, issuer, idx, reports, puts,
                  generated, invocations >>

\* createProvider: the ARN of the created provider becomes the physical id
createProvider ==
  /\ pc = "createProvider"
  /\ LET params == [Url |-> issuer, ThumbprintList |-> << eksOIDCCAThumbprint >>,
                    ClientIDList |-> << "sts.amazon.com" >>]
         arn == ProviderArn(issuer)
     IN
     \E a \in (IF arn \in iam.providers THEN RemoteErrors ELSE Answers) :
       /\ calls' = Append(calls, Call("iam.createOpenIDConnectProvider", params, a))
       /\ IF a = Ok
          THEN /\ iam' = [iam EXCEPT !.providers = @ \cup {arn}]
               /\ physicalResourceId' = arn
               /\ responseData' = [Arn |-> arn]
               /\ pc' = "reportSuccess"
               /\ UNCHANGED err
          ELSE Throw(a) /\ UNCHANGED << iam, physicalResourceId, responseData >>
  /\ UNCHANGED << moduleVars, ctl, construct, event, role, accountId, issuer, idx, reports, puts,
                  generated, invocations >>

----------------------------------------------------------------------------
(* Response reporter (the same function in both packages) *)

\* the object report hands to JSON.stringify; undefined members are dropped
\* variant of ResponseBody: the stack id is left out of the response
ResponseBody_NoStackId(responseStatus, responseData_, reason) ==
  [Status |-> responseStatus,
   PhysicalResourceId |-> Or(physicalResourceId, context.logStreamName),
   Data |-> responseData_]
  @@ Opt("Reason", reason)
  @@ Opt("RequestId", Get(event, "RequestId"))
  @@ Opt("LogicalResourceId", Get(event, "LogicalResourceId"))

ResponseBody(responseStatus, responseData_, reason) ==
  [Status |-> responseStatus,
   PhysicalResourceId |-> Or(physicalResourceId, context.logStreamName),
   Data |-> responseData_]
  @@ Opt("Reason", reason)
  @@ Opt("StackId", Get(event, "StackId"))
  @@ Opt("RequestId", Get(event, "RequestId"))
  @@ Opt("LogicalResourceId", Get(event, "LogicalResourceId"))

StatusMessage(code) == IF code = 400 THEN "Bad Request" ELSE "Internal Server Error"

\* the rejection of the promise of report for an answer of the endpoint
DeliveryError(answer) ==
  IF answer = TransportError
  THEN Error("Error", "connect ECONNREFUSED")
  ELSE Error("Error", "Server returned error " \o ToString(answer) \o ": " \o StatusMessage(answer))

Resolves(answer) == answer # TransportError /\ ~(answer >= 400)

\* report(event, context, responseStatus, physicalResourceId, responseData, reason):
\* settled is TRUE when the promise resolved, failure is the rejection otherwise
report(responseStatus, responseData_, reason, settled, failure) ==
  LET body == ResponseBody(responseStatus, responseData_, reason)
      url == Or(Get(event, "ResponseURL"), defaultResponseURL)
      record(ok) == Append(reports, [body |-> body, url |-> url, resolved |-> ok])
  IN
  IF url = Undefined
  THEN \* new URL(undefined) throws inside the executor: the promise rejects
       /\ settled = FALSE
       /\ failure = Error("TypeError", "Invalid URL: undefined")
       /\ reports' = record(FALSE)
       /\ UNCHANGED puts
  ELSE \E answer \in CallbackAnswers :
       /\ settled = Resolves(answer)
       /\ failure = (IF Resolves(answer) THEN NoError ELSE DeliveryError(answer))
       /\ reports' = record(Resolves(answer))
       /\ puts' = Append(puts,
            [method |-> "PUT", url |-> url, body |-> body, answer |-> answer])

\* variant of ReportSuccess: the FAILED report follows a delivered SUCCESS too
\* (the report of the catch clause placed in a finally clause)
ReportSuccess_ThenReportFailed ==
  /\ pc = "reportSuccess"
  /\ \E settled \in BOOLEAN, failure \in {NoError} \cup
          {DeliveryError(a) : a \in CallbackAnswers} \cup {Error("TypeError", "Invalid URL: undefined")} :
       /\ report("SUCCESS", responseData, Undefined, settled, failure)
       /\ IF settled
          THEN pc' = "reportFailed" /\ UNCHANGED err
          ELSE Throw(failure)
  /\ UNCHANGED << moduleVars, iam, ctl, construct, event, physicalResourceId, responseData, role,
                  accountId, issuer, idx, calls, generated, invocations >>

\* variant of ReportSuccess: the promise of a delivered report is never resolved
ReportSuccess_NeverResolved ==
  /\ pc = "reportSuccess"
  /\ \E settled \in BOOLEAN, failure \in {NoError} \cup
          {DeliveryError(a) : a \in CallbackAnswers} \cup {Error("TypeError", "Invalid URL: undefined")} :
       /\ report("SUCCESS", responseData, Undefined, settled, failure)
       /\ IF settled
          THEN pc' = "awaitReport" /\ UNCHANGED err
          ELSE Throw(failure)
  /\ UNCHANGED << moduleVars, iam, ctl, construct, event, physicalResourceId, responseData, role,
                  accountId, issuer, idx, calls, generated, invocations >>

\* await report(event, context, 'SUCCESS', physicalResourceId, responseData), in the try block
ReportSuccess ==
  /\ pc = "reportSuccess"
  /\ \E settled \in BOOLEAN, failure \in {NoError} \cup
          {DeliveryError(a) : a \in CallbackAnswers} \cup {Error("TypeError", "Invalid URL: undefined")} :
       /\ report("SUCCESS", responseData, Undefined, settled, failure)
       /\ IF settled
          THEN pc' = "done" /\ UNCHANGED err
          ELSE Throw(failure)
  /\ UNCHANGED << moduleVars, iam, ctl, construct, event, physicalResourceId, responseData, role,
                  accountId, issuer, idx, calls, generated, invocations >>

\* variant of ReportFailed: the FAILED response carries responseData
ReportFailed_WithData ==
  /\ pc = "reportFailed"
  /\ \E settled \in BOOLEAN, failure \in {NoError} \cup
          {DeliveryError(a) : a \in CallbackAnswers} \cup {Error("TypeError", "Invalid URL: undefined")} :
       /\ report("FAILED", responseData, err.message, settled, failure)
       /\ IF settled
          THEN pc' = "done" /\ UNCHANGED err
          ELSE pc' = "rejected" /\ err' = failure
  /\ UNCHANGED << moduleVars, iam, ctl, construct, event, physicalResourceId, responseData, role,
                  accountId, issuer, idx, calls, generated, invocations >>

\* await report(event, context, 'FAILED', physicalResourceId, null, err.message), in the catch clause
ReportFailed ==
  /\ pc = "reportFailed"
  /\ \E settled \in BOOLEAN, failure \in {NoError} \cup
          {DeliveryError(a) : a \in CallbackAnswers} \cup {Error("TypeError", "Invalid URL: undefined")} :
       /\ report("FAILED", JsNull, err.message, settled, failure)
       /\ IF settled
          THEN pc' = "done" /\ UNCHANGED err
          ELSE pc' = "rejected" /\ err' = failure
  /\ UNCHANGED << moduleVars, iam, ctl, construct, event, physicalResourceId, responseData, role,
                  accountId, issuer, idx, calls, generated, invocations >>

----------------------------------------------------------------------------
(* Specification of the two handlers *)

Next ==
  \/ withDefaultResponseURL(ResponseURL)
  \/ withWaiter("mock waiter")
  \/ resetWaiter
  \/ ctl = "role" /\ \E e \in RoleEvents : Invoke(e)
  \/ ctl = "provider" /\ \E e \in ProviderEvents : Invoke(e)
  \/ RoleSwitchCreate
  \/ RoleSwitchDelete
  \/ RoleSwitchDefault
  \/ getAccountId
  \/ getIssuer
  \/ createRole
  \/ waitFor
  \/ putRolePolicy
  \/ attachRolePolicy
  \/ RoleCreated
  \/ deleteRole
  \/ ProviderSwitchUpdate
  \/ ProviderSwitchCreate
  \/ ProviderSwitchDelete
  \/ ProviderSwitchDefault
  \/ deleteProvider
  \/ getIssuerUrl
  \/ createProvider
  \/ ReportSuccess
  \/ ReportFailed

Spec == Init /\ [][Next]_vars

----------------------------------------------------------------------------
(* Specification of generateRoleName: a Create without RoleName, for logical *)
(* resource ids of every length 0..MaxLogicalIdLen                           *)

IdAlphabet == "Test-Role-Resource0123456789abcXYZ"

RECURSIVE LogicalIdOfLen(_)
LogicalIdOfLen(n) ==
  IF n = 0 THEN ""
  ELSE LogicalIdOfLen(n - 1) \o CharAt(IdAlphabet, (n - 1) % Len(IdAlphabet))

InitName ==
  /\ defaultResponseURL = Undefined
  /\ waiter = Undefined
  /\ iam = [roles |-> {}, providers |-> {}]
  /\ ctl = "role"
  /\ \E n \in 0..MaxLogicalIdLen :
       event = [RequestType |-> "Create", RequestId |-> "req-1",
                StackId |-> "arn:aws:cloudformation:stack/s1",
                LogicalResourceId |-> LogicalIdOfLen(n), ResponseURL |-> ResponseURL,
                ResourceProperties |-> [ClusterName |-> "testCluster",
                                        Namespace |-> "testNamespace",
                                        ServiceAccount |-> "testServiceAccount"]]
  /\ pc = "switch"
  /\ physicalResourceId = Undefined
  /\ responseData = EmptyObject
  /\ role = NoRole
  /\ err = NoError
  /\ accountId = Undefined
  /\ issuer = Undefined
  /\ idx = 1
  /\ calls = <<>>
  /\ reports = <<>>
  /\ puts = <<>>
  /\ generated = <<>>
  /\ invocations = 1
  /\ construct = NoConstruct

NextName == RoleSwitchCreate

SpecName == InitName /\ [][NextName]_vars

----------------------------------------------------------------------------
(* Specification of the trust policy: a Create that has resolved the account *)
(* id, for every cluster, namespace and service account of the bounded sets  *)

AccountIds == {"123456789012", "999999999999"}
Namespaces == {"testNamespace", "default", "kube-system"}
ServiceAccounts == {"testServiceAccount", "sa"}

InitTrust ==
  /\ defaultResponseURL = Undefined
  /\ waiter = Undefined
  /\ iam = [roles |-> {}, providers |-> {}]
  /\ ctl = "role"
  /\ \E c \in DOMAIN eksClusters, n \in Namespaces, a \in ServiceAccounts :
       event = [RequestType |-> "Create", RequestId |-> "req-1",
                StackId |-> "arn:aws:cloudformation:stack/s1",
                LogicalResourceId |-> "TestRoleResource", ResponseURL |-> ResponseURL,
                ResourceProperties |-> [ClusterName |-> c, Namespace |-> n,
                                        ServiceAccount |-> a, RoleName |-> "testRole"]]
  /\ pc = "getIssuer"
  /\ physicalResourceId = Undefined
  /\ responseData = EmptyObject
  /\ role = NoRole
  /\ err = NoError
  /\ accountId \in AccountIds
  /\ issuer = Undefined
  /\ idx = 1
  /\ calls = << Call("sts.getCallerIdentity", EmptyObject, Ok) >>
  /\ reports = <<>>
  /\ puts = <<>>
  /\ generated = <<>>
  /\ invocations = 1
  /\ construct = NoConstruct

NextTrust == getIssuer \/ createRole

SpecTrust == InitTrust /\ [][NextTrust]_vars

----------------------------------------------------------------------------
(* Specification of two invocations on one account: the handler runs while  *)
(* an invocation in another container, for another role or provider, takes  *)
(* its remote-call steps                                                     *)

otherRoleName == "otherRole"
otherProviderArn == ProviderArn("https://oidc.eks.us-east-1.amazonaws.com/id/OTHER")

\* a remote-call step of the other invocation: it creates or deletes its own
\* role (iam.createRole, iam.deleteRole) or its own provider
\* (iam.createOpenIDConnectProvider, iam.deleteOpenIDConnectProvider); it has
\* its own locals and, in its own container, its own module state
OtherInvocation ==
  /\ pc \notin {"idle", "done", "rejected"}
  /\ \/ /\ ctl = "role"
        /\ iam' = [iam EXCEPT !.roles = IF otherRoleName \in @ THEN @ \ {otherRoleName}
                                        ELSE @ \cup {otherRoleName}]
     \/ /\ ctl = "provider"
        /\ iam' = [iam EXCEPT !.providers = IF otherProviderArn \in @
                                            THEN @ \ {otherProviderArn}
                                            ELSE @ \cup {otherProviderArn}]
  /\ UNCHANGED << moduleVars, ctl, construct, event, pc, localVars, calls, reports, puts, generated,
                  invocations >>

\* the account holds any of the roles and providers of earlier invocations;
\* one invocation more is followed than MaxInvocations allows in Spec
InitShared ==
  /\ defaultResponseURL = Undefined
  /\ waiter = Undefined
  /\ ctl \in {"role", "provider"}
  /\ \/ ctl = "role" /\ iam \in { [roles |-> r, providers |-> {}] : r \in SUBSET {"testRole"} }
     \/ ctl = "provider" /\ iam \in { [roles |-> {}, providers |-> p] : p \in SUBSET ProviderArns }
  /\ event = EmptyObject
  /\ pc = "idle"
  /\ physicalResourceId = Undefined
  /\ responseData = EmptyObject
  /\ role = NoRole
  /\ err = NoError
  /\ accountId = Undefined
  /\ issuer = Undefined
  /\ idx = 1
  /\ calls = <<>>
  /\ reports = <<>>
  /\ puts = <<>>
  /\ generated = <<>>
  /\ invocations = MaxInvocations - 1
  /\ construct = NoConstruct

NextShared == Next \/ OtherInvocation

SpecShared == InitShared /\ [][NextShared]_vars

----------------------------------------------------------------------------
(* Specification of one invocation that is scheduled to its end: every       *)
(* awaited remote call and PUT settles, and the continuation then runs       *)

HandlerStep ==
  \/ RoleSwitchCreate \/ RoleSwitchDelete \/ RoleSwitchDefault
  \/ getAccountId \/ getIssuer \/ createRole \/ waitFor
  \/ putRolePolicy \/ attachRolePolicy \/ RoleCreated \/ deleteRole
  \/ ProviderSwitchUpdate \/ ProviderSwitchCreate \/ ProviderSwitchDelete
  \/ ProviderSwitchDefault \/ deleteProvider \/ getIssuerUrl \/ createProvider
  \/ ReportSuccess \/ ReportFailed

SpecLive == InitShared /\ [][Next]_vars /\ WF_vars(HandlerStep)

----------------------------------------------------------------------------
(* Specification of the Role construct: new Role(scope, id, props) for max   *)
(* session durations around both limits and descriptions around 1000         *)
(* characters                                                                *)

DurationMargin == 10       \* durations this close to each limit, in seconds
DescriptionMargin == 1     \* description lengths this close to 1000

\* Duration.toSeconds()
toSeconds(d) ==
  d.amount * (CASE d.unit = "seconds" -> 1 [] d.unit = "minutes" -> 60
                [] d.unit = "hours" -> 3600)

Durations ==
  { [amount |-> n, unit |-> "seconds"] :
      n \in {0, 1} \cup ((3600 - DurationMargin)..(3600 + DurationMargin))
                   \cup ((43200 - DurationMargin)..(43200 + DurationMargin)) }
  \cup { [amount |-> n, unit |-> "minutes"] : n \in {59, 60, 720, 721} }
  \cup { [amount |-> n, unit |-> "hours"] : n \in {0, 1, 12, 13} }

RECURSIVE StringOfLen(_)
StringOfLen(n) ==
  IF n = 0 THEN ""
  ELSE IF n % 2 = 0 THEN LET h == StringOfLen(n \div 2) IN h \o h
  ELSE "d" \o StringOfLen(n - 1)

Descriptions ==
  { StringOfLen(n) : n \in {0, 1} \cup ((1000 - DescriptionMargin)..(1000 + DescriptionMargin)) }

\* the props a Role construct is declared with
RolePropsInputs ==
  { [clusterName |-> "testCluster", serviceAccount |-> "testServiceAccount"] @@ d @@ s
    : d \in {EmptyObject} \cup { "maxSessionDuration" :> x : x \in Durations },
      s \in {EmptyObject} \cup { "description" :> x : x \in Descriptions } }

\* variant of validateMaxSessionDuration: both limits are excluded
validateMaxSessionDuration_Exclusive(locals) ==
  IF "maxSessionDuration" \notin DOMAIN locals THEN NoError
  ELSE IF locals.maxSessionDuration <= 3600 \/ locals.maxSessionDuration >= 43200
  THEN Error("Error", "maxSessionDuration is set to " \o ToString(locals.maxSessionDuration)
                      \o ", but must be >= 3600sec (1hr) and <= 43200sec (12hrs)")
  ELSE NoError

\* validateMaxSessionDuration(duration): the error it throws, NoError if none
validateMaxSessionDuration(locals) ==
  IF "maxSessionDuration" \notin DOMAIN locals THEN NoError
  ELSE IF locals.maxSessionDuration < 3600 \/ locals.maxSessionDuration > 43200
  THEN Error("Error", "maxSessionDuration is set to " \o ToString(locals.maxSessionDuration)
                      \o ", but must be >= 3600sec (1hr) and <= 43200sec (12hrs)")
  ELSE NoError

LambdaFunction == [type |-> "Function", id |-> "IAMRoleForK8SSvcAcctCustomResource"]

\* variant of Role_maxSessionDuration: the handler function is declared first
Role_maxSessionDuration_DeclaresFirst ==
  /\ construct.pc = "constructor"
  /\ LET props_ == construct.props
         l == IF "maxSessionDuration" \in DOMAIN props_
              THEN "maxSessionDuration" :> toSeconds(props_.maxSessionDuration)
              ELSE EmptyObject
         e == validateMaxSessionDuration(l)
     IN
     construct' = [construct EXCEPT !.locals = l,
                                    !.declared = Append(@, LambdaFunction),
                                    !.fn = TRUE,
                                    !.error = e,
                                    !.pc = IF e = NoError THEN "description" ELSE "thrown"]
  /\ UNCHANGED << moduleVars, iam, ctl, event, pc, localVars, calls, reports, puts,
                  generated, invocations >>

\* constructor, up to validateMaxSessionDuration(maxSessionDuration)
Role_maxSessionDuration ==
  /\ construct.pc = "constructor"
  /\ LET props_ == construct.props
         l == IF "maxSessionDuration" \in DOMAIN props_
              THEN "maxSessionDuration" :> toSeconds(props_.maxSessionDuration)
              ELSE EmptyObject
         e == validateMaxSessionDuration(l)
     IN
     construct' = [construct EXCEPT !.locals = l,
                                    !.error = e,
                                    !.pc = IF e = NoError THEN "description" ELSE "thrown"]
  /\ UNCHANGED << moduleVars, iam, ctl, event, pc, localVars, calls, reports, puts,
                  generated, invocations >>

\* constructor: description, and its length check
Role_description ==
  /\ construct.pc = "description"
  /\ LET props_ == construct.props
         d == IF "description" \in DOMAIN props_ /\ Len(props_.description) > 0
              THEN "description" :> props_.description
              ELSE EmptyObject
         tooLong == "description" \in DOMAIN d /\ Len(d.description) > 1000
     IN
     construct' =
       [construct EXCEPT
          !.locals = @ @@ d,
          !.error = IF tooLong
                    THEN Error("Error", "Role description must be no longer than 1000 characters.")
                    ELSE @,
          !.pc = IF tooLong THEN "thrown" ELSE "fn"]
  /\ UNCHANGED << moduleVars, iam, ctl, event, pc, localVars, calls, reports, puts,
                  generated, invocations >>

\* constructor: if (!Role.fn) Role.fn = new Function(...)
Role_fn ==
  /\ construct.pc = "fn"
  /\ construct' = [construct EXCEPT
                     !.declared = IF construct.fn THEN @ ELSE Append(@, LambdaFunction),
                     !.fn = TRUE,
                     !.pc = "resource"]
  /\ UNCHANGED << moduleVars, iam, ctl, event, pc, localVars, calls, reports, puts,
                  generated, invocations >>

\* constructor: new CustomResource(this, 'Resource', ...)
Role_resource ==
  /\ construct.pc = "resource"
  /\ LET l == construct.locals
         properties ==
           [ClusterName |-> construct.props.clusterName,
            Namespace |-> "default",
            ServiceAccount |-> construct.props.serviceAccount]
           @@ (IF "maxSessionDuration" \in DOMAIN l
               THEN "MaxSessionDuration" :> l.maxSessionDuration ELSE EmptyObject)
           @@ (IF "description" \in DOMAIN l
               THEN "Description" :> l.description ELSE EmptyObject)
     IN
     construct' = [construct EXCEPT
                     !.declared = Append(@, [type |-> "Custom::IamRoleForServiceAccount",
                                             id |-> "Resource",
                                             properties |-> properties]),
                     !.pc = "constructed"]
  /\ UNCHANGED << moduleVars, iam, ctl, event, pc, localVars, calls, reports, puts,
                  generated, invocations >>

\* a Role construct is declared once, in a scope in which Role.fn is or is not
\* declared yet; no handler runs at declaration time
InitConstruct ==
  /\ defaultResponseURL = Undefined
  /\ waiter = Undefined
  /\ iam = [roles |-> {}, providers |-> {}]
  /\ ctl = "role"
  /\ event = EmptyObject
  /\ pc = "idle"
  /\ physicalResourceId = Undefined
  /\ responseData = EmptyObject
  /\ role = NoRole
  /\ err = NoError
  /\ accountId = Undefined
  /\ issuer = Undefined
  /\ idx = 1
  /\ calls = <<>>
  /\ reports = <<>>
  /\ puts = <<>>
  /\ generated = <<>>
  /\ invocations = 0
  /\ \E p \in RolePropsInputs, f \in BOOLEAN :
       construct = [NoConstruct EXCEPT !.pc = "constructor", !.props = p, !.fn = f]

NextConstruct == Role_maxSessionDuration \/ Role_description \/ Role_fn \/ Role_resource

SpecConstruct == InitConstruct /\ [][NextConstruct]_vars

----------------------------------------------------------------------------
(* Properties *)

RequestType == Get(event, "RequestType")
Terminated == pc \in {"done", "rejected"}
Status(i) == reports[i].body.Status
AllDelivered == \A i \in DOMAIN reports : reports[i].resolved
Failed(c) == c.answer # Ok

\* an error the branch handles itself: deleteProvider swallows every error,
\* deleteRole swallows not-found
Handled(c) ==
  \/ c.op = "iam.deleteOpenIDConnectProvider"
  \/ c.op = "iam.deleteRole" /\ c.answer.name = "ResourceNotFoundException"
Unhandled(c) == Failed(c) /\ ~Handled(c)

\* C1: as long as every callback delivery succeeds, an invocation of either
\* handler calls report at most once while it runs and exactly once by the
\* time it has terminated, for every request type and every remote failure.
C1_ExactlyOneResponse ==
  AllDelivered => /\ Len(reports) <= 1
                  /\ Terminated => Len(reports) = 1

\* an invocation that terminated after a remote call failed, with one delivered response
C1_Witness ==
  /\ pc = "done" /\ Len(reports) = 1 /\ reports[1].resolved
  /\ Len(calls) >= 2 /\ Unhandled(calls[Len(calls)])

\* C2: an invocation never makes a second outbound network call (a delivery
\* error is not turned into a second Terminal Response).
C2_OneNetworkCall == Len(puts) <= 1

\* C3: an event whose RequestType is absent or not Create/Update/Delete gets
\* only FAILED responses with reason 'Unsupported request type <value>', one
\* by the time the invocation has terminated, and no remote API call is made.
C3_Unsupported ==
  (pc # "idle" /\ RequestType \notin {"Create", "Update", "Delete"}) =>
     /\ calls = <<>>
     /\ Terminated => Len(reports) >= 1
     /\ \A i \in DOMAIN reports :
          /\ Status(i) = "FAILED"
          /\ "Reason" \in DOMAIN reports[i].body
          /\ reports[i].body.Reason =
               (IF "RequestType" \in DOMAIN event
                THEN "Unsupported request type " \o event.RequestType
                ELSE "Unsupported request type undefined")

\* a terminated invocation of the provider handler for the empty event
C3_Witness ==
  /\ pc = "done" /\ ctl = "provider" /\ event = EmptyObject /\ Len(reports) = 1
  /\ reports[1].body.Reason = "Unsupported request type undefined"

\* the operations of the calls issued so far, in order
Ops(cs) == [i \in DOMAIN cs |-> cs[i].op]

RECURSIVE Repeat(_, _)
Repeat(x, n) == IF n = 0 THEN <<>> ELSE << x >> \o Repeat(x, n - 1)

\* the documented sequence of remote calls of the running invocation
ExpectedOps ==
  IF ctl = "role"
  THEN (IF RequestType = "Create"
        THEN << "sts.getCallerIdentity", "eks.describeCluster", "iam.createRole", "iam.waitFor" >>
             \o Repeat("iam.putRolePolicy", Len(PoliciesOf(props)))
             \o Repeat("iam.attachRolePolicy", Len(ManagedPolicyArnsOf(props)))
        ELSE IF RequestType = "Delete" THEN << "iam.deleteRole" >>
        ELSE <<>>)
  ELSE (IF RequestType = "Create"
        THEN << "eks.describeCluster", "iam.createOpenIDConnectProvider" >>
        ELSE IF RequestType = "Update"
        THEN << "iam.deleteOpenIDConnectProvider", "eks.describeCluster",
                "iam.createOpenIDConnectProvider" >>
        ELSE IF RequestType = "Delete" THEN << "iam.deleteOpenIDConnectProvider" >>
        ELSE <<>>)

IsPrefix(a, b) == Len(a) <= Len(b) /\ a = SubSeq(b, 1, Len(a))

\* C4: when a remote call raised an error the branch does not handle, every
\* response of the invocation is FAILED, has that error's message as reason
\* and null as data, and there is one once the invocation has terminated; a
\* SUCCESS response is emitted only after every call of the branch was issued
\* and none raised an unhandled error.
C4_FailureReported ==
  /\ \A i \in DOMAIN calls :
       Unhandled(calls[i]) =>
         /\ Terminated => Len(reports) >= 1
         /\ \A j \in DOMAIN reports :
              /\ Status(j) = "FAILED"
              /\ "Reason" \in DOMAIN reports[j].body
              /\ reports[j].body.Reason = calls[i].answer.message
              /\ reports[j].body.Data = JsNull
  /\ \A j \in DOMAIN reports :
       Status(j) = "SUCCESS" =>
         /\ \A i \in DOMAIN calls : ~Unhandled(calls[i])
         /\ Ops(calls) = ExpectedOps

\* a Role Create that failed at the second policy attachment and reported it
C4_Witness ==
  /\ pc = "done" /\ ctl = "role" /\ Len(calls) = 6
  /\ calls[6].op = "iam.attachRolePolicy" /\ calls[6].answer.name = "AccessDenied"
  /\ Len(reports) = 1 /\ Status(1) = "FAILED"

\* C5: the remote calls of an invocation follow the documented sequence, and
\* an unhandled failure is always the last remote call of its invocation.
C5_StopsAtFailure ==
  pc # "idle" =>
    /\ IsPrefix(Ops(calls), ExpectedOps)
    /\ \A i \in DOMAIN calls : Unhandled(calls[i]) => i = Len(calls)

\* a terminated Role Create whose existence check failed while policies were still to come
C5_Witness ==
  /\ Terminated /\ Len(calls) = 4 /\ Unhandled(calls[4])
  /\ Len(ExpectedOps) = 8

\* C6: in a Role Create, iam.createRole is issued only after the account id
\* and the issuer were resolved, the existence check only after iam.createRole
\* succeeded, and a policy is put or attached only after the existence check
\* passed.
C6_CreateOrder ==
  ctl = "role" =>
    \A i \in DOMAIN calls :
      /\ calls[i].op = "iam.createRole" =>
           /\ \E j \in 1..(i - 1) : calls[j].op = "sts.getCallerIdentity" /\ calls[j].answer = Ok
           /\ \E j \in 1..(i - 1) : calls[j].op = "eks.describeCluster" /\ calls[j].answer = Ok
      /\ calls[i].op = "iam.waitFor" =>
           \E j \in 1..(i - 1) : calls[j].op = "iam.createRole" /\ calls[j].answer = Ok
      /\ calls[i].op \in {"iam.putRolePolicy", "iam.attachRolePolicy"} =>
           \E j \in 1..(i - 1) : calls[j].op = "iam.waitFor" /\ calls[j].answer = Ok

\* a Role Create that reached its first policy call
C6_Witness ==
  /\ ctl = "role" /\ Len(calls) = 5
  /\ calls[5].op \in {"iam.putRolePolicy", "iam.attachRolePolicy"}

IsPut(c) == c.op = "iam.putRolePolicy"
IsAttach(c) == c.op = "iam.attachRolePolicy"
IsCreateRole(c) == c.op = "iam.createRole"
RoleCreateSucceeded ==
  /\ ctl = "role" /\ pc # "idle" /\ RequestType = "Create"
  /\ \E i \in DOMAIN reports : Status(i) = "SUCCESS"

\* C7: when a Role Create reports SUCCESS, the putRolePolicy calls are one per
\* element of Policies, in order, with its name and document, the
\* attachRolePolicy calls are one per element of ManagedPolicyArns, all for
\* the name of the created role and all after the last putRolePolicy; an
\* absent list gives no call.
C7_PoliciesAttachedOnce ==
  RoleCreateSucceeded =>
    LET put == SelectSeq(calls, IsPut)
        attach == SelectSeq(calls, IsAttach)
        created == SelectSeq(calls, IsCreateRole)[1].params.RoleName
    IN
    /\ Len(put) = (IF "Policies" \in DOMAIN props THEN Len(props.Policies) ELSE 0)
    /\ \A k \in DOMAIN put :
         /\ put[k].answer = Ok
         /\ put[k].params = [RoleName |-> created,
                             PolicyName |-> props.Policies[k].PolicyName,
                             PolicyDocument |-> props.Policies[k].PolicyDocument]
    /\ Len(attach) = (IF "ManagedPolicyArns" \in DOMAIN props
                      THEN Len(props.ManagedPolicyArns) ELSE 0)
    /\ \A k \in DOMAIN attach :
         /\ attach[k].answer = Ok
         /\ attach[k].params = [RoleName |-> created, PolicyArn |-> props.ManagedPolicyArns[k]]
    /\ \A i, j \in DOMAIN calls : IsPut(calls[i]) /\ IsAttach(calls[j]) => i < j

\* a Role Create with two inline policies and no ManagedPolicyArns that reported SUCCESS
C7_Witness ==
  /\ RoleCreateSucceeded /\ pc = "done"
  /\ "ManagedPolicyArns" \notin DOMAIN props
  /\ Len(PoliciesOf(props)) = 2

\* h is url with a leading 'http://' or 'https://' removed
IsHostOf(h, url) ==
  \/ url = "https://" \o h
  \/ url = "http://" \o h
  \/ ~StartsWith(url, "https://") /\ ~StartsWith(url, "http://") /\ h = url

\* C8: the trust policy given to iam.createRole has one statement, Allow of
\* sts:AssumeRoleWithWebIdentity, whose Federated principal is
\* arn:aws:iam::<accountId>:oidc-provider/<issuerHost> and whose StringEquals
\* condition maps <issuerHost>:sub to system:serviceaccount:<namespace>:<serviceAccount>
\* and <issuerHost>:aud to sts.amazonaws.com, issuerHost being the issuer URL of
\* the cluster without a leading http:// or https://.
C8_TrustPolicy ==
  \A i \in DOMAIN calls :
    calls[i].op = "iam.createRole" =>
      LET doc == calls[i].params.AssumeRolePolicyDocument
          url == eksClusters[props.ClusterName]
          h == CHOOSE x \in {SubSeq(url, k, Len(url)) : k \in 1..(Len(url) + 1)} : IsHostOf(x, url)
      IN
      /\ Len(doc.Statement) = 1
      /\ doc.Statement[1].Effect = "Allow"
      /\ doc.Statement[1].Action = "sts:AssumeRoleWithWebIdentity"
      /\ doc.Statement[1].Principal =
           [Federated |-> "arn:aws:iam::" \o accountId \o ":oidc-provider/" \o h]
      /\ doc.Statement[1].Condition =
           [StringEquals |->
              ((h \o ":sub") :> ("system:serviceaccount:" \o props.Namespace \o ":"
                                   \o props.ServiceAccount))
              @@ ((h \o ":aud") :> "sts.amazonaws.com")]

\* iam.createRole was called for a cluster whose issuer URL starts with http://
C8_Witness ==
  /\ Len(calls) = 3 /\ calls[3].op = "iam.createRole"
  /\ props.ClusterName = "plainHttp" /\ props.Namespace = "kube-system"

\* C9: every SUCCESS response of a Role Create carries the ARN and the role id
\* of the role that iam.createRole returned as data, and the name of that role
\* as physical resource id: the generated name when one was generated,
\* otherwise the RoleName of the event.
C9_CreateResponse ==
  (ctl = "role" /\ pc # "idle" /\ RequestType = "Create") =>
    \A i \in DOMAIN reports :
      Status(i) = "SUCCESS" =>
        LET name == IF generated # <<>> THEN generated[1] ELSE props.RoleName
            created == SelectSeq(calls, IsCreateRole)[1]
        IN
        /\ created.answer = Ok /\ created.params.RoleName = name
        /\ role.RoleName = name
        /\ reports[i].body.Data = [Arn |-> role.Arn, RoleId |-> role.RoleId]
        /\ reports[i].body.Data.Arn = "arn:aws:iam::123456789012:role/" \o name
        /\ reports[i].body.PhysicalResourceId = name

\* a Role Create without RoleName, for the long logical id, reported SUCCESS
C9_Witness ==
  /\ ctl = "role" /\ pc = "done" /\ RequestType = "Create"
  /\ Len(reports) = 1 /\ Status(1) = "SUCCESS"
  /\ generated # <<>> /\ event.LogicalResourceId = longLogicalResourceId

UpperAlnum ==
  {"A", "B", "C", "D", "E", "F", "G", "H", "I", "J", "K", "L", "M", "N", "O", "P", "Q",
   "R", "S", "T", "U", "V", "W", "X", "Y", "Z", "0", "1", "2", "3", "4", "5", "6", "7",
   "8", "9"}

\* C10: for a logical resource id of any length, the generated name has at
\* most 63 characters and is the first min(length, 50) characters of the
\* logical id, a hyphen, and 12 characters of A-Z0-9.
C10_GeneratedName ==
  \A g \in DOMAIN generated :
    LET n == generated[g]
        l == event.LogicalResourceId
        k == IF Len(l) < 50 THEN Len(l) ELSE 50
    IN
    /\ Len(n) <= 63
    /\ Len(n) = k + 1 + 12
    /\ SubSeq(n, 1, k) = SubSeq(l, 1, k)
    /\ SubSeq(n, k + 1, k + 1) = "-"
    /\ \A j \in (k + 2)..(k + 13) : SubSeq(n, j, j) \in UpperAlnum

\* a name was generated for a logical id of more than 63 characters
C10_Witness ==
  /\ generated # <<>> /\ Len(event.LogicalResourceId) > 63
  /\ props.RoleName = generated[1]

\* the call a step appends to the history of remote calls
Issued == calls'[Len(calls')]

\* C11: within an invocation the role name generator runs at most once, and
\* only in a Role Create whose event has no RoleName (never in an Update, a
\* Delete or an unsupported request, never in the provider package); the
\* event changes in no other step, and iam.createRole receives the RoleName
\* of the event as supplied, or the generated name when one was generated.
C11_GeneratorUse ==
  [][ /\ Len(generated') > Len(generated) =>
          /\ generated = <<>> /\ Len(generated') = 1
          /\ ctl = "role" /\ RequestType = "Create"
          /\ Falsy(Get(props, "RoleName"))
      /\ (pc \notin {"idle", "done", "rejected"} /\ event' # event) =>
          Len(generated') > Len(generated)
      /\ (Len(calls') > Len(calls) /\ Issued.op = "iam.createRole") =>
          Issued.params.RoleName =
            IF generated = <<>> THEN props.RoleName ELSE generated[1]
    ]_vars

\* a Role Create with a supplied RoleName reached iam.createRole with no name
\* generated
C11_Witness ==
  /\ ctl = "role" /\ RequestType = "Create" /\ generated = <<>>
  /\ \E i \in DOMAIN calls :
       calls[i].op = "iam.createRole" /\ calls[i].params.RoleName = "testRole"

\* the elements of a list, and the parameters of the calls of one operation
SetOf(list) == { list[i] : i \in DOMAIN list }
ParamsOf(op) == { calls[i].params : i \in { j \in DOMAIN calls : calls[j].op = op } }
PolicyNames(list) == { list[i].PolicyName : i \in DOMAIN list }
AllSucceeded == \A i \in DOMAIN calls : calls[i].answer = Ok
RoleUpdateDone ==
  ctl = "role" /\ RequestType = "Update" /\ pc = "done" /\ AllSucceeded /\ AllDelivered

\* C12: a Role Update from managed policies A and inline policies P1 to B and
\* P2, with every remote call succeeding, detaches exactly the ARNs of A \ B,
\* attaches every ARN of B, deletes exactly the inline policies of P1 whose
\* name is not in P2, puts every policy of P2, and reports SUCCESS.
C12_UpdateDiff ==
  RoleUpdateDone =>
    LET name == event.PhysicalResourceId
        A  == SetOf(ManagedPolicyArnsOf(event.OldResourceProperties))
        B  == SetOf(ManagedPolicyArnsOf(props))
        P1 == PoliciesOf(event.OldResourceProperties)
        P2 == PoliciesOf(props)
    IN
    /\ ParamsOf("iam.detachRolePolicy")
         = { [RoleName |-> name, PolicyArn |-> a] : a \in A \ B }
    /\ ParamsOf("iam.attachRolePolicy")
         = { [RoleName |-> name, PolicyArn |-> a] : a \in B }
    /\ ParamsOf("iam.deleteRolePolicy")
         = { [RoleName |-> name, PolicyName |-> n]
             : n \in PolicyNames(P1) \ PolicyNames(P2) }
    /\ ParamsOf("iam.putRolePolicy")
         = { [RoleName |-> name, PolicyName |-> q.PolicyName,
              PolicyDocument |-> q.PolicyDocument] : q \in SetOf(P2) }
    /\ Len(reports) = 1 /\ Status(1) = "SUCCESS"

\* C13: a Role Update calls iam.updateRole with the role name, the Description
\* and the MaxSessionDuration of the event, and never calls iam.createRole.
C13_UpdateRoleCalled ==
  RoleUpdateDone =>
    /\ ParamsOf("iam.updateRole")
         = { [RoleName |-> event.PhysicalResourceId,
              Description |-> props.Description,
              MaxSessionDuration |-> props.MaxSessionDuration] }
    /\ ParamsOf("iam.createRole") = {}

\* C14: every response of a Role Update carries the PhysicalResourceId of the
\* event as physical resource id.
C14_UpdateKeepsPhysicalId ==
  (ctl = "role" /\ RequestType = "Update") =>
    \A i \in DOMAIN reports :
      reports[i].body.PhysicalResourceId = event.PhysicalResourceId

\* the error names with which a remote service says that the resource does not
\* exist: the one deleteRole tests for, and the one IAM answers with
NotFoundNames == {"ResourceNotFoundException", "NoSuchEntity"}
RoleDeleteCalled ==
  ctl = "role" /\ RequestType = "Delete" /\ calls # <<>> /\ calls[1].op = "iam.deleteRole"

\* C15: a Role Delete whose iam.deleteRole call is answered with "the role
\* does not exist" reports SUCCESS, as it does when the role was deleted.
C15_DeleteIdempotent ==
  (RoleDeleteCalled /\ calls[1].answer.name \in NotFoundNames) =>
    \A i \in DOMAIN reports : i = 1 => Status(i) = "SUCCESS"

\* C16: a Role Delete whose iam.deleteRole call fails with an error other than
\* not-found reports FAILED, with the message of that error as reason and the
\* PhysicalResourceId of the event as physical resource id.
C16_DeleteErrorReported ==
  (RoleDeleteCalled /\ Failed(calls[1]) /\ calls[1].answer.name \notin NotFoundNames) =>
    /\ Terminated => reports # <<>>
    /\ \A i \in DOMAIN reports :
         /\ Status(i) = "FAILED"
         /\ reports[i].body.Reason = calls[1].answer.message
         /\ reports[i].body.PhysicalResourceId = event.PhysicalResourceId

\* a Role Delete refused with AccessDenied has delivered its response
C16_Witness ==
  /\ RoleDeleteCalled /\ calls[1].answer.name = "AccessDenied"
  /\ pc = "done" /\ Len(reports) = 1 /\ reports[1].resolved

\* C17: in a Role Delete every ARN of ResourceProperties.ManagedPolicyArns is
\* detached from the role named by PhysicalResourceId before iam.deleteRole is
\* called.
C17_DetachBeforeDelete ==
  (ctl = "role" /\ RequestType = "Delete") =>
    \A i \in DOMAIN calls :
      calls[i].op = "iam.deleteRole" =>
        \A a \in SetOf(ManagedPolicyArnsOf(props)) :
          \E j \in 1..(i - 1) :
            /\ calls[j].op = "iam.detachRolePolicy"
            /\ calls[j].params = [RoleName |-> event.PhysicalResourceId, PolicyArn |-> a]

IsCreateProvider(c) == c.op = "iam.createOpenIDConnectProvider"

\* C18: in a Provider Create, iam.createOpenIDConnectProvider receives the
\* issuer URL of the cluster named by ClusterName as describeCluster returned
\* it, scheme included, the one fixed thumbprint and the fixed client id
\* list, whatever else the event holds; a SUCCESS response carries the ARN the
\* call returned both as physical resource id and as Data.Arn.
C18_ProviderCreate ==
  (ctl = "provider" /\ RequestType = "Create") =>
    LET url == eksClusters[props.ClusterName] IN
    /\ \A i \in DOMAIN calls :
         IsCreateProvider(calls[i]) =>
           /\ calls[i].params =
                [Url |-> url,
                 ThumbprintList |-> << "9e99a48a9960b14926bb7f3b02e22da2b0ab7280" >>,
                 ClientIDList |-> << "sts.amazon.com" >>]
           /\ StartsWith(calls[i].params.Url, "https://")
    /\ \A i \in DOMAIN reports :
         Status(i) = "SUCCESS" =>
           /\ \E j \in DOMAIN calls : IsCreateProvider(calls[j]) /\ calls[j].answer = Ok
           /\ reports[i].body.PhysicalResourceId = ProviderArn(url)
           /\ reports[i].body.Data = [Arn |-> ProviderArn(url)]
           /\ ProviderArn(url) \in iam.providers

\* a Provider Create for the cluster test2 has delivered SUCCESS
C18_Witness ==
  /\ ctl = "provider" /\ RequestType = "Create" /\ pc = "done"
  /\ props.ClusterName = "test2"
  /\ Len(reports) = 1 /\ Status(1) = "SUCCESS" /\ reports[1].resolved

ProviderUpdate == ctl = "provider" /\ RequestType = "Update"

\* C19: the remote calls of a Provider Update are, in this order, the delete
\* of the provider named by the PhysicalResourceId of the event, the
\* describeCluster of the new ClusterName, and the create with the issuer
\* that describeCluster returned; no call precedes the delete, so the create
\* is never issued before the delete has returned.
C19_UpdateOrder ==
  ProviderUpdate =>
    /\ IsPrefix(Ops(calls), << "iam.deleteOpenIDConnectProvider", "eks.describeCluster",
                               "iam.createOpenIDConnectProvider" >>)
    /\ pc \in {"getIssuerUrl", "createProvider", "reportSuccess"} => calls # <<>>
    /\ Len(calls) >= 1 =>
         calls[1].params = [OpenIDConnectProviderArn |-> event.PhysicalResourceId]
    /\ Len(calls) >= 2 => calls[2].params = [name |-> props.ClusterName]
    /\ Len(calls) >= 3 =>
         calls[2].answer = Ok /\ calls[3].params.Url = eksClusters[props.ClusterName]
    /\ \A i \in DOMAIN reports : Status(i) = "SUCCESS" => Len(calls) = 3

\* a Provider Update has deleted the existing old provider and created the
\* new one
C19_Witness ==
  /\ ProviderUpdate /\ Len(calls) = 3
  /\ calls[1].answer = Ok /\ calls[3].answer = Ok
  /\ props.ClusterName = "test2"

\* C20 as stated: every SUCCESS response of a Provider Update carries a
\* physical resource id different from the PhysicalResourceId of the event.
C20_AlwaysNewId ==
  ProviderUpdate =>
    \A i \in DOMAIN reports :
      Status(i) = "SUCCESS" =>
        reports[i].body.PhysicalResourceId # event.PhysicalResourceId

\* C20 amended: every SUCCESS response of a Provider Update carries the ARN of
\* the provider created for the issuer of the new cluster; it differs from
\* the PhysicalResourceId of the event exactly when that issuer is not the
\* issuer of the provider the event names.
C20_NewIdIffNewIssuer ==
  ProviderUpdate =>
    \A i \in DOMAIN reports :
      Status(i) = "SUCCESS" =>
        LET url == eksClusters[props.ClusterName]
            oldIssuers == { eksClusters[n] : n \in
                            { m \in DOMAIN eksClusters :
                                ProviderArn(eksClusters[m]) = event.PhysicalResourceId } }
        IN
        /\ reports[i].body.PhysicalResourceId = ProviderArn(url)
        /\ (reports[i].body.PhysicalResourceId # event.PhysicalResourceId)
             = (url \notin oldIssuers)

\* a Provider Update to a cluster with another issuer has delivered SUCCESS
\* with a new physical id
C20_Witness ==
  /\ ProviderUpdate /\ pc = "done" /\ Len(reports) = 1 /\ Status(1) = "SUCCESS"
  /\ reports[1].body.PhysicalResourceId # event.PhysicalResourceId

ProviderDelete == ctl = "provider" /\ RequestType = "Delete"

\* C21: in a Provider Delete the answer of iam.deleteOpenIDConnectProvider,
\* success, not-found or any other error, never fails the invocation: the
\* handler goes on to report SUCCESS with the PhysicalResourceId of the event
\* and empty data, and reaches the catch clause only after that report.
C21_DeleteErrorsSwallowed ==
  ProviderDelete =>
    /\ Len(calls) <= 1
    /\ Terminated => reports # <<>>
    /\ pc = "reportFailed" => reports # <<>>
    /\ reports # <<>> =>
         /\ Len(calls) = 1
         /\ Status(1) = "SUCCESS"
         /\ reports[1].body.PhysicalResourceId = event.PhysicalResourceId
         /\ reports[1].body.Data = EmptyObject

\* a Provider Delete of an absent provider, refused with AccessDenied, has
\* delivered SUCCESS
C21_Witness ==
  /\ ProviderDelete /\ pc = "done" /\ Len(reports) = 1 /\ reports[1].resolved
  /\ Status(1) = "SUCCESS" /\ calls[1].answer.name = "AccessDenied"
  /\ event.PhysicalResourceId \notin iam.providers

\* C22: every response to an Update or a Delete of either handler carries the
\* PhysicalResourceId of the event as physical resource id, except the
\* SUCCESS response of a Provider Update.
C22_StablePhysicalId ==
  RequestType \in {"Update", "Delete"} =>
    \A i \in DOMAIN reports :
      \/ ProviderUpdate /\ Status(i) = "SUCCESS"
      \/ reports[i].body.PhysicalResourceId = event.PhysicalResourceId

CorrelationKeys == {"RequestId", "StackId", "LogicalResourceId"}

\* C23: every response, SUCCESS or FAILED and for every request type, and the
\* body of every PUT, has the RequestId, the StackId and the
\* LogicalResourceId of the event, and lacks the ones the event lacks.
C23_CorrelationEchoed ==
  /\ \A i \in DOMAIN reports : \A k \in CorrelationKeys :
       Get(reports[i].body, k) = Get(event, k)
  /\ \A i \in DOMAIN puts : \A k \in CorrelationKeys :
       Get(puts[i].body, k) = Get(event, k)

\* a FAILED response for the second correlation record was delivered
C23_Witness ==
  /\ pc = "done" /\ Len(puts) = 1 /\ puts[1].body.Status = "FAILED"
  /\ Get(puts[1].body, "RequestId") = "req-2"
  /\ Get(puts[1].body, "StackId") = Get(event, "StackId")
  /\ Get(puts[1].body, "LogicalResourceId") = longLogicalResourceId

\* C24: report resolves exactly when the endpoint answers the PUT with a 2xx
\* status code; every other status code and every transport error rejects.
C24_ResolvesOn2xxOnly ==
  \A i \in DOMAIN puts :
    /\ i \in DOMAIN reports
    /\ reports[i].resolved = (puts[i].answer \in 200..299)

\* the remote operations that undo a completed step
UndoOps ==
  {"iam.deleteRole", "iam.detachRolePolicy", "iam.deleteRolePolicy",
   "iam.deleteOpenIDConnectProvider"}

\* C25: a Create or Update issues no compensating call: no remote call follows
\* a failed one, a Role Create or Update and a Provider Create issue no undoing
\* call at all, a Provider Update issues only its initial delete; a role that
\* iam.createRole created is in the remote state for the rest of the
\* invocation, also when FAILED is reported.
C25_NoRollback ==
  RequestType \in {"Create", "Update"} =>
    /\ \A i \in DOMAIN calls :
         /\ Unhandled(calls[i]) => i = Len(calls)
         /\ calls[i].op \in UndoOps => ProviderUpdate /\ i = 1
    /\ (ctl = "role" /\ \E i \in DOMAIN calls : IsCreateRole(calls[i]) /\ calls[i].answer = Ok)
         => props.RoleName \in iam.roles

\* a Role Create whose attach failed after the role was created and a policy
\* was put has delivered FAILED, and the role exists
C25_Witness ==
  /\ ctl = "role" /\ RequestType = "Create" /\ pc = "done"
  /\ Len(reports) = 1 /\ Status(1) = "FAILED"
  /\ \E i \in DOMAIN calls : IsPut(calls[i]) /\ calls[i].answer = Ok
  /\ IsAttach(calls[Len(calls)]) /\ Failed(calls[Len(calls)])
  /\ props.RoleName \in iam.roles

\* an invocation is running: it was started and has not terminated
Running == pc \notin {"idle", "done", "rejected"}

\* C26: no step of a running invocation changes the event, so the event and
\* its ResourceProperties are after the invocation what they were before it.
C26_EventReadOnly == [][Running => event' = event]_vars

\* what an invocation that runs alone reports first: the status follows from
\* the request type and the answers to its own calls, the physical id from
\* the event
Supported ==
  \/ ctl = "role" /\ RequestType \in {"Create", "Delete"}
  \/ ctl = "provider" /\ RequestType \in {"Create", "Update", "Delete"}
AloneStatus ==
  IF Supported /\ \A i \in DOMAIN calls : ~Unhandled(calls[i]) THEN "SUCCESS" ELSE "FAILED"
AlonePhysicalId ==
  IF RequestType = "Delete" THEN event.PhysicalResourceId
  ELSE IF AloneStatus = "FAILED" THEN context.logStreamName
  ELSE IF ctl = "role" THEN props.RoleName
  ELSE ProviderArn(eksClusters[props.ClusterName])

\* a step of the running invocation, as opposed to one of the other invocation
OwnStep == pc' # pc \/ calls' # calls \/ reports' # reports

ResponsesAsAlone ==
  /\ AllDelivered => (Len(reports) <= 1 /\ (Terminated /\ event # EmptyObject => Len(reports) = 1))
  /\ \A i \in DOMAIN reports : Get(reports[i].body, "RequestId") = Get(event, "RequestId")
  /\ reports # <<>> =>
       /\ Status(1) = AloneStatus
       /\ reports[1].body.PhysicalResourceId = AlonePhysicalId

C28_Terminates == (pc = "switch") ~> (Terminated /\ reports # <<>>)

\* an invocation has terminated after neither its SUCCESS response nor the
\* FAILED response that followed could be delivered
C28_Witness ==
  /\ pc = "rejected" /\ Len(reports) = 2 /\ calls # <<>>

\* the max session duration of the construct under declaration, in seconds
DurationGiven == "maxSessionDuration" \in DOMAIN construct.props
DurationSeconds == toSeconds(construct.props.maxSessionDuration)
DurationRejected ==
  /\ construct.pc = "thrown"
  /\ StartsWith(construct.error.message, "maxSessionDuration is set to ")

\* C29: the Role construct rejects a max session duration of d seconds exactly
\* when d < 3600 or d > 43200, and accepts an absent one.
C29_SessionDurationRange ==
  construct.pc \notin {"none", "constructor"} =>
    DurationRejected = (DurationGiven /\ (DurationSeconds < 3600 \/ DurationSeconds > 43200))

\* a construct with a max session duration of 43200 seconds was declared
C29_Witness ==
  /\ construct.pc = "constructed" /\ DurationGiven /\ DurationSeconds = 43200
  /\ construct.declared[Len(construct.declared)].properties.MaxSessionDuration = 43200

DescriptionLen ==
  IF "description" \in DOMAIN construct.props THEN Len(construct.props.description) ELSE 0

\* C30: the Role construct throws exactly when the max session duration is out
\* of range or the description is longer than 1000 characters (1000 is
\* accepted); when it throws, neither the handler function nor the custom
\* resource was declared and no handler runs; otherwise the custom resource
\* is the last thing declared.
C30_ValidationFirst ==
  /\ construct.pc \in {"thrown", "constructed"} =>
       (construct.pc = "thrown") =
         \/ DurationGiven /\ (DurationSeconds < 3600 \/ DurationSeconds > 43200)
         \/ DescriptionLen > 1000
  /\ construct.pc = "thrown" => construct.declared = <<>> /\ pc = "idle" /\ calls = <<>>
  /\ construct.pc \in {"constructor", "description"} => construct.declared = <<>>
  /\ construct.pc = "constructed" =>
       construct.declared[Len(construct.declared)].type = "Custom::IamRoleForServiceAccount"

\* a construct with a description of 1001 characters has thrown after its
\* max session duration was accepted
C30_Witness ==
  /\ construct.pc = "thrown" /\ DescriptionLen = 1001
  /\ construct.error.message = "Role description must be no longer than 1000 characters."
  /\ DurationGiven /\ DurationSeconds = 3600

\* C31: in both handlers a delivered response is the last one of its
\* invocation and ends it; a second call of report follows only a SUCCESS
\* report whose delivery was rejected, and it is a FAILED one; no report
\* follows a FAILED report. So an invocation calls report at most twice, at
\* most once with SUCCESS and at most once with FAILED, and sends no PUT
\* without a call of report.
C31_NoResponseAfterDelivery ==
  /\ Len(reports) <= 2
  /\ Len(puts) <= Len(reports)
  /\ \A i \in DOMAIN reports :
       /\ reports[i].resolved => (i = Len(reports) /\ pc = "done")
       /\ Status(i) = "FAILED" => (i = Len(reports) /\ pc \in {"done", "rejected"})
       /\ i > 1 => /\ Status(i - 1) = "SUCCESS" /\ ~reports[i - 1].resolved
                   /\ Status(i) = "FAILED"
  /\ Cardinality({ i \in DOMAIN reports : Status(i) = "SUCCESS" }) <= 1
  /\ Cardinality({ i \in DOMAIN reports : Status(i) = "FAILED" }) <= 1

\* a Role Delete whose SUCCESS response was answered with status 400 has
\* delivered a FAILED response as its second report
C31_Witness ==
  /\ ctl = "role" /\ RequestType = "Delete" /\ pc = "done"
  /\ Len(reports) = 2 /\ Len(puts) = 2 /\ puts[1].answer = 400
  /\ Status(1) = "SUCCESS" /\ ~reports[1].resolved
  /\ Status(2) = "FAILED" /\ reports[2].resolved

\* a creating request: a Role Create, or a Provider Create or Update
Creating ==
  \/ ctl = "role" /\ RequestType = "Create"
  \/ ctl = "provider" /\ RequestType \in {"Create", "Update"}

\* C32: when a step of a Role Create fails, also one that follows the
\* creation of the role (existence check, inline policy, managed policy),
\* every response is FAILED and carries context.logStreamName as physical
\* resource id, which is not the name of the created role nor of any role of
\* the account; in the same way the response to a Provider Create or Update
\* of which a step failed is FAILED and carries context.logStreamName.
C32_FailedCreateFallbackId ==
  (Creating /\ \E i \in DOMAIN calls : Unhandled(calls[i])) =>
    /\ Terminated => reports # <<>>
    /\ physicalResourceId = Undefined
    /\ \A j \in DOMAIN reports :
         /\ Status(j) = "FAILED"
         /\ reports[j].body.PhysicalResourceId = context.logStreamName
         /\ reports[j].body.PhysicalResourceId \notin iam.roles \cup iam.providers
         /\ ctl = "role" => reports[j].body.PhysicalResourceId # props.RoleName

\* a Role Create without RoleName has created the role under the generated
\* name, failed at its inline policy and delivered FAILED
C32_Witness ==
  /\ ctl = "role" /\ RequestType = "Create" /\ pc = "done"
  /\ generated # <<>> /\ generated[1] \in iam.roles
  /\ IsPut(calls[Len(calls)]) /\ Failed(calls[Len(calls)])
  /\ Len(reports) = 1 /\ Status(1) = "FAILED" /\ reports[1].resolved

\* C33: in a Provider Update no answer to the delete of the prior provider
\* stops the update: the handler never reaches its catch clause or its end
\* with the delete as its only call, eks.describeCluster is called next
\* whether or not the delete succeeded, and iam.createOpenIDConnectProvider
\* after it when the issuer was resolved; and when the resolution or the
\* create fails after a delete that succeeded, the prior provider is absent
\* from the account from then on and every response is FAILED.
C33_UpdateSurvivesDeleteFailure ==
  ProviderUpdate =>
    /\ (pc \in {"reportSuccess", "reportFailed"} \/ Terminated) =>
         /\ Len(calls) >= 2
         /\ calls[1].op = "iam.deleteOpenIDConnectProvider"
         /\ calls[2].op = "eks.describeCluster"
         /\ calls[2].answer = Ok =>
              Len(calls) = 3 /\ calls[3].op = "iam.createOpenIDConnectProvider"
    /\ pc = "getIssuerUrl" => Len(calls) = 1
    /\ (Len(calls) >= 2 /\ calls[1].answer = Ok /\ Failed(calls[Len(calls)])) =>
         /\ event.PhysicalResourceId \notin iam.providers
         /\ Terminated => reports # <<>>
         /\ \A i \in DOMAIN reports : Status(i) = "FAILED"

\* a Provider Update whose delete of the existing prior provider was refused
\* has gone on to create the provider of the new cluster and delivered SUCCESS
C33_Witness ==
  /\ ProviderUpdate /\ pc = "done" /\ Len(calls) = 3
  /\ calls[1].answer.name = "AccessDenied" /\ calls[3].answer = Ok
  /\ event.PhysicalResourceId \in iam.providers
  /\ Len(reports) = 1 /\ Status(1) = "SUCCESS"

\* the audience that the trust policy of a role of the cluster with this
\* issuer URL requires in its '<issuerHost>:aud' condition
RequiredAudience(issuerUrl) ==
  LET host == StripScheme(issuerUrl)
      policy == getAssumeRolePolicy(Account, host, "testNamespace", "testServiceAccount")
  IN policy.Statement[1].Condition.StringEquals[host \o ":aud"]

\* C34: for every provider that the provider handler creates, the audience
\* that the role handler's trust policy requires for the same cluster is one
\* of the client ids the provider is registered with.
C34_AudienceRegistered ==
  \A i \in DOMAIN calls :
    IsCreateProvider(calls[i]) =>
      RequiredAudience(calls[i].params.Url) \in SetOf(calls[i].params.ClientIDList)
====
